---- MODULE Spec2Model ----
(***************************************************************************)
(* AerospikeSessionStore (src/aerospike_store.py): a session store that    *)
(* keeps one record per session id in an Aerospike set, and connects to    *)
(* the database with a bounded retry loop when it is constructed.          *)
(*                                                                         *)
(* The specifications share the variables:                                 *)
(*   SpecConnect  the constructor and _connect_with_retry, one loop        *)
(*                iteration per step, from every (retries, delay) input;   *)
(*   Spec         read / write / remove on a constructed store;            *)
(*   SpecLife     Spec and the shutdown of app.py's lifespan;              *)
(*   SpecAsync    request tasks of one event loop calling the store;       *)
(*   SpecApp      the login / logout / home routes of app.py on a session. *)
(***************************************************************************)
EXTENDS Integers, Sequences, FiniteSets, TLC

\* ---------------------------------------------------------------- bounds
MaxIds        == 2      \* session ids are 1..MaxIds
MaxPayloadLen == 2      \* payloads are byte strings of length 0..MaxPayloadLen
MaxTtl        == 1      \* ttl arguments are -1, 0 and 1..MaxTtl
MaxRetries    == 4      \* retries arguments are -1..MaxRetries
MaxDelay      == 2      \* delay arguments are 1..MaxDelay
MaxTasks      == 2      \* request tasks are 1..MaxTasks
MaxRequests   == 3      \* the demo app serves at most MaxRequests requests

\* ------------------------------------------------------ program constants
DEFAULT_GC_TTL   == 60 * 60 * 24 * 30
SESSION_LIFETIME == 3600 * 24
connect_retries  == 10
retry_delay      == 2
namespace        == "test"
set_name         == "fastapi_sessions"
gc_ttl           == DEFAULT_GC_TTL

\* ------------------------------------------------------------ value sets
SessionIds == 1..MaxIds
\* The store never looks into a payload: one byte string of each length,
\* b"", b"\x01", b"\x01\x02", ..., stands for the payloads.
Payloads   == {[i \in 1..n |-> i] : n \in 0..MaxPayloadLen}
EmptyBytes == << >>
Ttls       == {0 - 1, 0} \cup 1..MaxTtl
Lifetimes  == {SESSION_LIFETIME}
RetriesArgs == (0 - 1)..MaxRetries
DelayArgs   == 1..MaxDelay

\* Exception classes.  The aerospike.exception classes all derive from
\* AerospikeError; RecordNotFound is the one read and remove catch.
\* OSError stands for an exception that is not an AerospikeError.
AerospikeErrors == {"RecordNotFound", "TimeoutError", "ClientError"}
ConnectExcs     == {"TimeoutError", "ClientError", "OSError"}
OpFaults        == {"TimeoutError", "ClientError"}

\* isinstance(exc, cls) as an except clause decides it.
IsInstance(exc, cls) ==
    \/ exc = cls
    \/ cls = "AerospikeError" /\ exc \in AerospikeErrors

VARIABLES
    pc,        \* "connecting" | "connected" | "failed": where the constructor is
    retries,   \* _connect_with_retry's retries argument
    delay,     \* _connect_with_retry's delay argument
    attempt,   \* the loop variable of _connect_with_retry
    trace,     \* what _connect_with_retry did so far: connect, log, sleep, print
    raised,    \* << >>, or <<e>> for the exception e the constructor raised
    client,    \* self._client: "None" until the constructor has assigned it
    db,        \* the Aerospike set: key -> record, for the keys that have one
    last,      \* the last store operation: its arguments, client calls, outcome
    written,   \* session ids some write has stored a record for
    pending,   \* id -> data of a completed write not followed by a write or
               \* remove of that id
    removed,   \* id -> "existing" | "missing" | "again" for a completed remove
               \* not followed by a write of that id: whether it found a
               \* record, or none because a remove came before it (again)
    closes,    \* how many times self._client.close() has been called
    running,   \* the task the event loop's thread is running, 0 when none
    tpc,       \* task -> "ready" | "calling" | "done": where each request is
    session,   \* request.session of the demo app, a dict
    history,   \* the requests the demo app has served on that session
    resp       \* the demo app's response to the last of them

connVars  == <<pc, retries, delay, attempt, trace, raised, client>>
storeVars == <<db, last, written, pending, removed>>
lifeVars  == <<closes>>
taskVars  == <<running, tpc>>
appVars   == <<session, history, resp>>
vars      == <<pc, retries, delay, attempt, trace, raised, client,
               db, last, written, pending, removed,
               closes, running, tpc, session, history, resp>>

\* ------------------------------------------------------------------ keys
_key(session_id) == <<namespace, set_name, session_id>>

Keys == {_key(id) : id \in SessionIds}

\* --------------------------------------------- the client's record calls
\* A call either raises (raised # "none") or returns.  fault is the error
\* the database or the network makes of this call, "none" when it answers.
NoBins == [data |-> <<0 - 1>>]
NoMeta == {}

ClientGet(d, key, fault) ==
    IF fault # "none" THEN [raised |-> fault, bins |-> NoBins]
    ELSE IF key \notin DOMAIN d THEN [raised |-> "RecordNotFound", bins |-> NoBins]
    ELSE [raised |-> "none", bins |-> d[key].bins]

\* put(key, bins, meta): the record is created or replaced.
ClientPut(d, key, bins, meta, fault) ==
    IF fault # "none" THEN [raised |-> fault, db |-> d]
    ELSE [raised |-> "none",
          db |-> [k \in DOMAIN d \cup {key} |->
                    IF k = key THEN [bins |-> bins, meta |-> meta] ELSE d[k]]]

ClientRemove(d, key, fault) ==
    IF fault # "none" THEN [raised |-> fault, db |-> d]
    ELSE IF key \notin DOMAIN d THEN [raised |-> "RecordNotFound", db |-> d]
    ELSE [raised |-> "none", db |-> [k \in DOMAIN d \ {key} |-> d[k]]]

\* bins.get(name, default)
BinsGet(bins, name, default) ==
    IF name \in DOMAIN bins THEN bins[name] ELSE default

\* ------------------------------------------------------------- outcomes
NoResult == <<0 - 1>>      \* not a payload: no byte is negative
NoReturn == << >>          \* nothing returned; write returns <<session_id>>

Returned(calls, result, ret, d) ==
    [outcome |-> "return", calls |-> calls, result |-> result, ret |-> ret,
     exc |-> "none", db |-> d]

Raised(calls, exc, d) ==
    [outcome |-> "raise", calls |-> calls, result |-> NoResult, ret |-> NoReturn,
     exc |-> exc, db |-> d]

\* ----------------------------------------------------------------- read
\* read with the bin looked up under another name than write stores it.
read_WrongBin(session_id, lifetime, fault) ==
    LET r == ClientGet(db, _key(session_id), fault)
        calls == <<[fn |-> "get", key |-> _key(session_id)]>>
    IN  IF r.raised = "none"
        THEN Returned(calls, BinsGet(r.bins, "session", EmptyBytes), NoReturn, db)
        ELSE IF IsInstance(r.raised, "RecordNotFound")
        THEN Returned(calls, EmptyBytes, NoReturn, db)
        ELSE Raised(calls, r.raised, db)

\* read without the except clause: RecordNotFound reaches the caller.
read_NoExcept(session_id, lifetime, fault) ==
    LET r == ClientGet(db, _key(session_id), fault)
        calls == <<[fn |-> "get", key |-> _key(session_id)]>>
    IN  IF r.raised = "none"
        THEN Returned(calls, BinsGet(r.bins, "data", EmptyBytes), NoReturn, db)
        ELSE Raised(calls, r.raised, db)

\* read with `except aex.AerospikeError`: every database error reads as
\* "no session".
read_CatchAll(session_id, lifetime, fault) ==
    LET r == ClientGet(db, _key(session_id), fault)
        calls == <<[fn |-> "get", key |-> _key(session_id)]>>
    IN  IF r.raised = "none"
        THEN Returned(calls, BinsGet(r.bins, "data", EmptyBytes), NoReturn, db)
        ELSE IF IsInstance(r.raised, "AerospikeError")
        THEN Returned(calls, EmptyBytes, NoReturn, db)
        ELSE Raised(calls, r.raised, db)

read(session_id, lifetime, fault) ==
    LET r == ClientGet(db, _key(session_id), fault)
        calls == <<[fn |-> "get", key |-> _key(session_id)]>>
    IN  IF r.raised = "none"
        THEN Returned(calls, BinsGet(r.bins, "data", EmptyBytes), NoReturn, db)
        ELSE IF IsInstance(r.raised, "RecordNotFound")
        THEN Returned(calls, EmptyBytes, NoReturn, db)
        ELSE Raised(calls, r.raised, db)

\* ---------------------------------------------------------------- write
\* record_ttl = ttl if ttl > 0 else self._gc_ttl
RecordTtl(ttl) == IF ttl > 0 THEN ttl ELSE gc_ttl

\* The meta argument of the put call.  record_ttl is computed, but the
\* meta={"ttl": record_ttl} argument is commented out: put gets no meta.
PutMeta(record_ttl) == NoMeta

\* write that keeps the record an id already has (a create-only put).
write_NoOverwrite(session_id, data, lifetime, ttl, fault) ==
    LET record_ttl == RecordTtl(ttl)
        r == ClientPut(db, _key(session_id), [data |-> data],
                       PutMeta(record_ttl), fault)
        calls == <<[fn |-> "put", key |-> _key(session_id)]>>
    IN  IF r.raised = "none"
        THEN Returned(calls, NoResult, <<session_id>>,
                      IF _key(session_id) \in DOMAIN db THEN db ELSE r.db)
        ELSE Raised(calls, r.raised, r.db)

\* write that ends without its return statement: the caller gets None.
write_ReturnsNothing(session_id, data, lifetime, ttl, fault) ==
    LET record_ttl == RecordTtl(ttl)
        r == ClientPut(db, _key(session_id), [data |-> data],
                       PutMeta(record_ttl), fault)
        calls == <<[fn |-> "put", key |-> _key(session_id)]>>
    IN  IF r.raised = "none"
        THEN Returned(calls, NoResult, NoReturn, r.db)
        ELSE Raised(calls, r.raised, r.db)

write(session_id, data, lifetime, ttl, fault) ==
    LET record_ttl == RecordTtl(ttl)
        r == ClientPut(db, _key(session_id), [data |-> data],
                       PutMeta(record_ttl), fault)
        calls == <<[fn |-> "put", key |-> _key(session_id)]>>
    IN  IF r.raised = "none"
        THEN Returned(calls, NoResult, <<session_id>>, r.db)
        ELSE Raised(calls, r.raised, r.db)

\* --------------------------------------------------------------- remove
\* remove with the key built in another order than _key builds it: the
\* database finds no record under it.
remove_WrongKey(session_id, fault) ==
    LET r == ClientRemove(db, <<set_name, namespace, session_id>>, fault)
        calls == <<[fn |-> "remove", key |-> <<set_name, namespace, session_id>>]>>
    IN  IF r.raised = "none"
        THEN Returned(calls, NoResult, NoReturn, r.db)
        ELSE IF IsInstance(r.raised, "RecordNotFound")
        THEN Returned(calls, NoResult, NoReturn, r.db)
        ELSE Raised(calls, r.raised, r.db)

\* remove that empties the whole set rather than delete one record.
remove_Truncates(session_id, fault) ==
    LET r == ClientRemove(db, _key(session_id), fault)
        calls == <<[fn |-> "remove", key |-> _key(session_id)]>>
    IN  IF r.raised = "none"
        THEN Returned(calls, NoResult, NoReturn, [k \in {} |-> 0])
        ELSE IF IsInstance(r.raised, "RecordNotFound")
        THEN Returned(calls, NoResult, NoReturn, r.db)
        ELSE Raised(calls, r.raised, r.db)

\* remove without the except clause: RecordNotFound reaches the caller.
remove_NoExcept(session_id, fault) ==
    LET r == ClientRemove(db, _key(session_id), fault)
        calls == <<[fn |-> "remove", key |-> _key(session_id)]>>
    IN  IF r.raised = "none"
        THEN Returned(calls, NoResult, NoReturn, r.db)
        ELSE Raised(calls, r.raised, r.db)

remove(session_id, fault) ==
    LET r == ClientRemove(db, _key(session_id), fault)
        calls == <<[fn |-> "remove", key |-> _key(session_id)]>>
    IN  IF r.raised = "none"
        THEN Returned(calls, NoResult, NoReturn, r.db)
        ELSE IF IsInstance(r.raised, "RecordNotFound")
        THEN Returned(calls, NoResult, NoReturn, r.db)
        ELSE Raised(calls, r.raised, r.db)

\* ------------------------------------------------------ history helpers
EmptyMap == [k \in {} |-> 0]
Drop(f, x) == [k \in DOMAIN f \ {x} |-> f[k]]
Put(f, x, v) == [k \in DOMAIN f \cup {x} |-> IF k = x THEN v ELSE f[k]]

\* handle is self._client, the connection the method made its call on.
Op(op, id, ttl, fault, o) ==
    [op |-> op, id |-> id, ttl |-> ttl, fault |-> fault, handle |-> client,
     outcome |-> o.outcome, calls |-> o.calls,
     result |-> o.result, ret |-> o.ret, exc |-> o.exc]

NoOp ==
    [op |-> "none", id |-> 0, ttl |-> 0, fault |-> "none", handle |-> "None",
     outcome |-> "none", calls |-> << >>,
     result |-> NoResult, ret |-> NoReturn, exc |-> "none"]

\* ------------------------------------------------------ store operations
Read ==
    /\ pc = "connected"
    /\ \E id \in SessionIds, lifetime \in Lifetimes, fault \in {"none"} \cup OpFaults :
         LET o == read(id, lifetime, fault) IN
           /\ db' = o.db
           /\ last' = Op("read", id, 0, fault, o)
    /\ UNCHANGED <<written, pending, removed>>
    /\ UNCHANGED connVars

Write ==
    /\ pc = "connected"
    /\ \E id \in SessionIds, data \in Payloads, lifetime \in Lifetimes,
          ttl \in Ttls, fault \in {"none"} \cup OpFaults :
         LET o == write(id, data, lifetime, ttl, fault) IN
           /\ db' = o.db
           /\ last' = Op("write", id, ttl, fault, o)
           /\ written' = IF _key(id) \in DOMAIN o.db THEN written \cup {id} ELSE written
           /\ pending' = IF o.outcome = "return"
                           THEN Put(pending, id, data)
                           ELSE Drop(pending, id)
           /\ removed' = Drop(removed, id)
    /\ UNCHANGED connVars

Remove ==
    /\ pc = "connected"
    /\ \E id \in SessionIds, fault \in {"none"} \cup OpFaults :
         LET o == remove(id, fault) IN
           /\ db' = o.db
           /\ last' = Op("remove", id, 0, fault, o)
           /\ pending' = Drop(pending, id)
           /\ removed' = IF o.outcome = "return"
                           THEN Put(removed, id,
                                    IF _key(id) \in DOMAIN db THEN "existing"
                                    ELSE IF id \in DOMAIN removed THEN "again"
                                    ELSE "missing")
                           ELSE removed
    /\ UNCHANGED written
    /\ UNCHANGED connVars

\* ------------------------------------------------------------ connecting
Event(ev, n, exc, d) == [ev |-> ev, n |-> n, exc |-> exc, d |-> d]

\* A range that takes in its stop value.
range_Inclusive(start, stop) == start..stop

\* range(start, stop)
range(start, stop) == start..(stop - 1)

InLoop == pc = "connecting" /\ attempt \in range(1, retries + 1)

\* The last-attempt test one attempt early.
IsLastAttempt_Early(n, r) == n = r - 1

\* The handler without its last-attempt test: it never re-raises.
IsLastAttempt_Never(n, r) == FALSE

\* if attempt == retries
IsLastAttempt(n, r) == n = r

\* A new, generic error raised in place of the one being handled.
ReRaise_Generic(e) == <<[cls |-> "AerospikeError", at |-> 0]>>

\* raise: the exception being handled goes on to the caller.
ReRaise(e) == <<e>>

\* The log line with the attempts counted from zero.
LogLine_ZeroBased(n, exc) == Event("log", n - 1, exc, 0)

\* print(f"Aerospike not ready (attempt {attempt}/{retries}): {e}")
LogLine(n, exc) == Event("log", n, exc, 0)

\* time.sleep(delay)
Sleep(n, d) == Event("sleep", n, "none", d)

\* The successful attempt without its return: the loop goes on to the next
\* attempt and the client is handed back when the loop is over.
ConnectOk_NoReturn ==
    /\ InLoop
    /\ trace' = trace \o <<Event("connect", attempt, "none", 0),
                           Event("print_connected", attempt, "none", 0)>>
    /\ client' = "client"
    /\ pc' = IF attempt = retries THEN "connected" ELSE "connecting"
    /\ attempt' = attempt + 1
    /\ UNCHANGED <<retries, delay, raised>>
    /\ UNCHANGED storeVars

\* aerospike.client({"hosts": hosts}).connect() returns: print, return client.
ConnectOk ==
    /\ InLoop
    /\ trace' = trace \o <<Event("connect", attempt, "none", 0),
                           Event("print_connected", attempt, "none", 0)>>
    /\ client' = "client"
    /\ pc' = "connected"
    /\ UNCHANGED <<retries, delay, attempt, raised>>
    /\ UNCHANGED storeVars

\* connect() raises exc.  An AerospikeError is caught: re-raised on the last
\* attempt, logged and slept on otherwise.  Anything else propagates.
ConnectFail ==
    /\ InLoop
    /\ \E exc \in ConnectExcs :
         LET e == [cls |-> exc, at |-> attempt]
             tried == Append(trace, Event("connect", attempt, exc, 0))
         IN  IF IsInstance(exc, "AerospikeError")
             THEN IF IsLastAttempt(attempt, retries)
                  THEN /\ trace' = tried
                       /\ raised' = ReRaise(e)
                       /\ pc' = "failed"
                       /\ UNCHANGED attempt
                  ELSE /\ trace' = tried \o <<LogLine(attempt, exc), Sleep(attempt, delay)>>
                       /\ attempt' = attempt + 1
                       /\ UNCHANGED <<raised, pc>>
             ELSE /\ trace' = tried
                  /\ raised' = <<e>>
                  /\ pc' = "failed"
                  /\ UNCHANGED attempt
    /\ UNCHANGED <<retries, delay, client>>
    /\ UNCHANGED storeVars

\* The loop is over (or was never entered): raise RuntimeError("Unreachable").
ConnectUnreachable ==
    /\ pc = "connecting"
    /\ attempt \notin range(1, retries + 1)
    /\ raised' = <<[cls |-> "RuntimeError", at |-> 0]>>
    /\ pc' = "failed"
    /\ UNCHANGED <<retries, delay, attempt, trace, client>>
    /\ UNCHANGED storeVars

\* -------------------------------------------------------------- shutdown
\* The lifespan's shutdown half without its store.close() line.
Shutdown_NoClose ==
    /\ pc = "connected"
    /\ pc' = "closed"
    /\ UNCHANGED <<retries, delay, attempt, trace, raised, client>>
    /\ UNCHANGED <<storeVars, lifeVars, taskVars, appVars>>

\* lifespan: yield, then store.close(), which is self._client.close().  The
\* server runs the part after the yield once, when it has stopped serving.
Shutdown ==
    /\ pc = "connected"
    /\ pc' = "closed"
    /\ closes' = closes + 1
    /\ UNCHANGED <<retries, delay, attempt, trace, raised, client>>
    /\ UNCHANGED <<storeVars, taskVars, appVars>>

\* --------------------------------------------- request tasks, event loop
\* The application serves its requests as tasks of one asyncio event loop,
\* which runs on one thread: a task runs until it awaits, and only then can
\* the loop run another.  read, write and remove are declared async def,
\* but their bodies hold no await: the client's get / put / remove is an
\* ordinary blocking call made on the loop's thread.
Tasks == 1..MaxTasks

\* The loop picks a ready request task and runs it up to the store method's
\* client call, which sends the request to the database.
Begin(t) ==
    /\ pc = "connected"
    /\ running = 0
    /\ tpc[t] = "ready"
    /\ running' = t
    /\ tpc' = [tpc EXCEPT ![t] = "calling"]
    /\ UNCHANGED <<connVars, storeVars, lifeVars, appVars>>

\* The database answers: the client call returns or raises on the loop's
\* thread, the method ends and the loop gets its thread back.
Finish(t) ==
    /\ running = t
    /\ tpc[t] = "calling"
    /\ (Read \/ Write \/ Remove)
    /\ running' = 0
    /\ tpc' = [tpc EXCEPT ![t] = "done"]
    /\ UNCHANGED <<lifeVars, appVars>>

\* ---------------------------------------------------------- the demo app
\* USERS_DB = {"admin": "secret", "alice": "password123"}
USERS_DB == ("admin" :> "secret") @@ ("alice" :> "password123")

\* The form values a client may post: the known users and a stranger, each
\* user's password and a wrong one.
Usernames == DOMAIN USERS_DB \cup {"bob"}
Passwords == {USERS_DB[u] : u \in DOMAIN USERS_DB} \cup {"letmein"}
ErrorArgs == {"", "Invalid credentials"}

\* dict.get(key): <<value>>, or << >> for None.
DictGet(d, key) == IF key \in DOMAIN d THEN <<d[key]>> ELSE << >>

\* Python's truth value of an optional string: None and "" are false.
Truthy(v) == v # << >> /\ v # <<"">>

RedirectResponse(location) ==
    [status |-> 302, location |-> location, user |-> << >>, error |-> ""]

\* page(title, body, username): the navbar shows the user when there is one.
page(title, username, error) ==
    [status |-> 200, location |-> title, user |-> username, error |-> error]

NoResponse == [status |-> 0, location |-> "", user |-> << >>, error |-> ""]

\* Each route gives the session it leaves and its response.
home(s) ==
    LET username == DictGet(s, "username")
    IN  IF ~Truthy(username)
        THEN [session |-> s, resp |-> RedirectResponse("/login")]
        ELSE [session |-> s, resp |-> page("Home", username, "")]

login_page(s, error) ==
    IF Truthy(DictGet(s, "username"))
    THEN [session |-> s, resp |-> RedirectResponse("/")]
    ELSE [session |-> s, resp |-> page("Login", << >>, error)]

\* login that checks the username only.
login_AnyPassword(s, username, password) ==
    IF username \in DOMAIN USERS_DB
    THEN [session |-> Put(s, "username", username),
          resp |-> RedirectResponse("/")]
    ELSE [session |-> s,
          resp |-> RedirectResponse("/login?error=Invalid+credentials")]

login(s, username, password) ==
    IF DictGet(USERS_DB, username) = <<password>>
    THEN [session |-> Put(s, "username", username),
          resp |-> RedirectResponse("/")]
    ELSE [session |-> s,
          resp |-> RedirectResponse("/login?error=Invalid+credentials")]

logout(s) ==
    [session |-> EmptyMap, resp |-> RedirectResponse("/login")]

Req(route, username, password, error) ==
    [route |-> route, username |-> username, password |-> password,
     error |-> error]

\* One request served: the middleware hands the route the session as the
\* request before left it, and keeps what the route leaves.
Serve(req, o) ==
    /\ pc = "connected"
    /\ Len(history) < MaxRequests
    /\ history' = Append(history, req)
    /\ session' = o.session
    /\ resp' = o.resp
    /\ UNCHANGED <<connVars, storeVars, lifeVars, taskVars>>

Home == Serve(Req("home", "", "", ""), home(session))

LoginPage ==
    \E error \in ErrorArgs :
        Serve(Req("login_page", "", "", error), login_page(session, error))

Login ==
    \E username \in Usernames, password \in Passwords :
        Serve(Req("login", username, password, ""),
              login(session, username, password))

Logout == Serve(Req("logout", "", "", ""), logout(session))

\* -------------------------------------------------------- specifications
\* No close() yet, no request task started, no request served by the app.
RestInit ==
    /\ closes = 0
    /\ running = 0
    /\ tpc = [t \in 1..MaxTasks |-> "ready"]
    /\ session = EmptyMap
    /\ history = << >>
    /\ resp = NoResponse

StoreInit ==
    /\ db = EmptyMap
    /\ last = NoOp
    /\ written = {}
    /\ pending = EmptyMap
    /\ removed = EmptyMap

\* AerospikeSessionStore(hosts, retries, delay) is being constructed.
InitConnect ==
    /\ pc = "connecting"
    /\ retries \in RetriesArgs
    /\ delay \in DelayArgs
    /\ attempt = 1
    /\ trace = << >>
    /\ raised = << >>
    /\ client = "None"
    /\ StoreInit
    /\ RestInit

NextConnect ==
    \/ ConnectOk /\ UNCHANGED <<lifeVars, taskVars, appVars>>
    \/ ConnectFail /\ UNCHANGED <<lifeVars, taskVars, appVars>>
    \/ ConnectUnreachable /\ UNCHANGED <<lifeVars, taskVars, appVars>>

SpecConnect == InitConnect /\ [][NextConnect]_vars

\* The store app.py constructs, once its constructor has returned.
Init ==
    /\ pc = "connected"
    /\ retries = connect_retries
    /\ delay = retry_delay
    /\ attempt = 1
    /\ trace = <<Event("connect", 1, "none", 0), Event("print_connected", 1, "none", 0)>>
    /\ raised = << >>
    /\ client = "client"
    /\ StoreInit
    /\ RestInit

Next ==
    \/ Read /\ UNCHANGED <<lifeVars, taskVars, appVars>>
    \/ Write /\ UNCHANGED <<lifeVars, taskVars, appVars>>
    \/ Remove /\ UNCHANGED <<lifeVars, taskVars, appVars>>

Spec == Init /\ [][Next]_vars

NextLife ==
    \/ Next
    \/ Shutdown

SpecLife == Init /\ [][NextLife]_vars

NextApp == Home \/ LoginPage \/ Login \/ Logout

SpecApp == Init /\ [][NextApp]_vars

NextAsync ==
    \/ \E t \in Tasks : Begin(t)
    \/ \E t \in Tasks : Finish(t)

SpecAsync == Init /\ [][NextAsync]_vars

\* ======================================================================
\* Properties of _connect_with_retry, checked under SpecConnect.
\* ======================================================================
Only(ev) == SelectSeq(trace, LAMBDA e : e.ev = ev)

Connects == Only("connect")     \* the connection attempts made so far
Sleeps   == Only("sleep")
Logs     == Only("log")

\* Every attempt made so far failed with a database error.
AllDbFailures == \A i \in 1..Len(Connects) : Connects[i].exc \in AerospikeErrors

\* Every attempt after the first comes right after a sleep of `delay`.
DelayBeforeEachRetry ==
    /\ \A i \in 1..Len(trace) :
          (trace[i].ev = "connect" /\ trace[i].n > 1)
              => (i > 1 /\ trace[i - 1].ev = "sleep" /\ trace[i - 1].d = delay)
    /\ \A i \in 1..Len(trace) :
          trace[i].ev = "sleep"
              => /\ trace[i].d = delay
                 /\ i < Len(trace) => trace[i + 1].ev = "connect"

\* C6 as stated: when every attempt fails with a database error, the error
\* is surfaced after exactly `retries` retries (attempts after the first),
\* each after a wait of `delay`.  (Stated for retries >= 1 only.)
C6_RetriesExactlyRetriesTimes ==
    (pc = "failed" /\ retries >= 1 /\ AllDbFailures)
        => /\ Len(Connects) - 1 = retries
           /\ Len(Sleeps) = retries
           /\ DelayBeforeEachRetry

\* C6 amended: with retries >= 1 and every attempt failing with a database
\* error, connect makes exactly `retries` attempts (the first and
\* retries - 1 retries), waits `delay` before each retry, and surfaces the
\* error only after the last of them.
C6_AttemptsExactlyRetriesTimes ==
    (retries >= 1 /\ AllDbFailures)
        => /\ Len(Connects) <= retries
           /\ DelayBeforeEachRetry
           /\ (Len(Connects) < retries => (pc = "connecting" /\ raised = << >>))
           /\ (pc = "failed" <=> raised # << >>)
           /\ pc = "failed"
                => /\ Len(Connects) = retries
                   /\ Len(Sleeps) = retries - 1

C6_Witness ==
    /\ pc = "failed"
    /\ retries >= 3
    /\ AllDbFailures
    /\ Len(Connects) = retries
    /\ Len(Sleeps) = retries - 1

\* C15: with retries >= 1 no execution makes more than `retries` attempts or
\* more than retries - 1 sleeps, and every sleep lasts `delay`.  While every
\* attempt so far has failed with a database error, each failed attempt but
\* the last allowed one has been followed by one sleep; when connect gives
\* up it has made exactly `retries` attempts and retries - 1 sleeps, and the
\* final failed attempt, not a sleep, is the last thing it did.
C15_AttemptsAndSleepsCounted ==
    retries >= 1
        => /\ Len(Connects) <= retries
           /\ Len(Sleeps) <= retries - 1
           /\ \A i \in 1..Len(Sleeps) : Sleeps[i].d = delay /\ Sleeps[i].n < retries
           /\ (AllDbFailures /\ pc = "connecting")
                => /\ Len(Sleeps) = Len(Connects)
                   /\ attempt = Len(Connects) + 1
           /\ (AllDbFailures /\ pc = "failed")
                => /\ Len(Connects) = retries
                   /\ Len(Sleeps) = retries - 1
                   /\ trace[Len(trace)].ev = "connect"
                   /\ trace[Len(trace)].n = retries

\* connect gave up after the largest number of attempts, each failing with
\* a database error, with the longest delay.
C15_Witness ==
    /\ pc = "failed"
    /\ retries = MaxRetries
    /\ delay = MaxDelay
    /\ AllDbFailures
    /\ Len(Connects) = MaxRetries
    /\ Len(Sleeps) = MaxRetries - 1
    /\ trace[Len(trace)].ev = "connect"

\* C16: with retries <= 0 connect makes no connection attempt, prints and
\* sleeps nothing and hands back no client: the one thing it can do, and
\* does, is raise RuntimeError("Unreachable"), whether or not the database
\* is reachable.  The constructor therefore never yields a store.
C16_NoAttemptWithoutRetries ==
    retries <= 0
        => /\ trace = << >>
           /\ client = "None"
           /\ pc \in {"connecting", "failed"}
           /\ pc = "connecting"
                => /\ raised = << >>
                   /\ ENABLED ConnectUnreachable
                   /\ ~ENABLED ConnectOk
                   /\ ~ENABLED ConnectFail
           /\ pc = "failed" => raised = <<[cls |-> "RuntimeError", at |-> 0]>>

C16_Witness ==
    /\ retries = 0
    /\ pc = "failed"
    /\ trace = << >>
    /\ raised = <<[cls |-> "RuntimeError", at |-> 0]>>

\* C7: once an attempt succeeds connect returns that client at once: the
\* successful attempt is the last thing it does besides announcing it, no
\* attempt and no delay follows it, and a first attempt that succeeds is
\* not delayed at all.
C7_ReturnsOnFirstSuccess ==
    pc = "connected"
        => LET n == Len(trace) IN
           /\ n >= 2
           /\ trace[n].ev = "print_connected"
           /\ trace[n - 1].ev = "connect"
           /\ trace[n - 1].exc = "none"
           /\ \A i \in 1..(n - 2) : trace[i].ev = "connect" => trace[i].exc # "none"
           /\ client = "client"
           /\ raised = << >>
           /\ Len(Connects) = 1 => (Len(Sleeps) = 0 /\ n = 2)

C7_Witness ==
    /\ pc = "connected"
    /\ Len(Connects) >= 2
    /\ Len(Connects) < retries
    /\ trace[Len(trace) - 1].exc = "none"

\* C8: when the retries are exhausted because every attempt failed with a
\* database error, the error raised is the one of the last attempt made,
\* and no client, hence no store, comes into being.
C8_LastErrorIsRaised ==
    (pc = "failed" /\ Len(Connects) >= 1 /\ AllDbFailures)
        => LET lastTry == Connects[Len(Connects)] IN
           /\ raised = <<[cls |-> lastTry.exc, at |-> lastTry.n]>>
           /\ lastTry.n = retries
           /\ client = "None"

C8_Witness ==
    /\ pc = "failed"
    /\ Len(Connects) >= 2
    /\ AllDbFailures
    /\ Connects[1].exc # Connects[Len(Connects)].exc
    /\ raised = <<[cls |-> Connects[Len(Connects)].exc, at |-> retries]>>

LogsOf(n) == {j \in 1..Len(trace) : trace[j].ev = "log" /\ trace[j].n = n}

\* C9 as stated: every attempt that failed with a database error, the
\* final one included, has exactly one log line carrying its number.
C9_EveryFailureLogged ==
    \A i \in 1..Len(Connects) :
        Connects[i].exc \in AerospikeErrors
            => Cardinality(LogsOf(Connects[i].n)) = 1

\* C9 amended: every attempt that failed with a database error, except the
\* final one (attempt number `retries`), has exactly one log line, which
\* carries its number and comes right after it; the final failed attempt
\* has none, and nothing else is logged.
C9_EveryFailureButLastLogged ==
    /\ \A i \in 1..Len(trace) :
          (trace[i].ev = "connect" /\ trace[i].exc \in AerospikeErrors)
              => IF trace[i].n < retries
                 THEN /\ LogsOf(trace[i].n) = {i + 1}
                      /\ trace[i + 1].exc = trace[i].exc
                 ELSE LogsOf(trace[i].n) = {}
    /\ \A j \in 1..Len(trace) :
          trace[j].ev = "log"
              => (j > 1 /\ trace[j - 1].ev = "connect" /\ trace[j - 1].n = trace[j].n)

C9_Witness ==
    /\ pc = "failed"
    /\ retries >= 3
    /\ AllDbFailures
    /\ Len(Connects) = retries
    /\ Len(Logs) = retries - 1
    /\ LogsOf(retries) = {}

\* ======================================================================
\* Properties of read / write / remove, checked under Spec.
\* A store operation "is answered" when the database makes no error of its
\* call other than record-not-found (last.fault = "none").
\* ======================================================================
Answered(op) == last.op = op /\ last.fault = "none"

\* C1: a completed write(id, data, lifetime, ttl), for any ttl (positive,
\* zero or negative), followed by an answered read(id) with no write or
\* remove of id in between: the read returns exactly data.
C1_WriteReadRoundTrip ==
    (Answered("read") /\ last.id \in DOMAIN pending)
        => /\ last.outcome = "return"
           /\ last.result = pending[last.id]

C1_Witness ==
    /\ Answered("read")
    /\ last.id \in DOMAIN pending
    /\ pending[last.id] # EmptyBytes
    /\ last.result = pending[last.id]
    /\ \E id \in DOMAIN pending : pending[id] # pending[last.id]

\* C2: an answered read(id) of an id that no write has ever stored returns
\* the empty byte sequence and does not raise.
C2_ReadNeverWritten ==
    (Answered("read") /\ last.id \notin written)
        => /\ last.outcome = "return"
           /\ last.exc = "none"
           /\ last.result = EmptyBytes

C2_Witness ==
    /\ Answered("read")
    /\ last.id \notin written
    /\ written # {}
    /\ last.result = EmptyBytes

\* C3: a completed remove(id), whether it found a record or not, followed
\* by an answered read(id) with no write of id in between: the read returns
\* the empty byte sequence.
C3_RemoveThenRead ==
    (Answered("read") /\ last.id \in DOMAIN removed)
        => /\ last.outcome = "return"
           /\ last.result = EmptyBytes

C3_Witness ==
    /\ Answered("read")
    /\ last.id \in DOMAIN removed
    /\ removed[last.id] = "existing"
    /\ \E id \in DOMAIN removed : removed[id] # "existing"
    /\ last.result = EmptyBytes

\* C4: an answered remove(id) of an id that has no record raises nothing
\* and leaves the stored records as they were; so does a second remove(id)
\* right after a first.
C4_RemoveMissingIsNoOp ==
    [][(last'.op = "remove" /\ last'.fault = "none" /\ _key(last'.id) \notin DOMAIN db)
          => /\ last'.outcome = "return"
             /\ last'.exc = "none"
             /\ db' = db]_vars

\* A completed remove that found no record, after an earlier remove of the
\* same id, with records of other ids in the database.
C4_Witness ==
    /\ Answered("remove")
    /\ last.outcome = "return"
    /\ last.id \in DOMAIN removed
    /\ removed[last.id] = "again"
    /\ DOMAIN db # {}

\* C5: every record a completed write(id, data, lifetime, ttl) stored is
\* stored with an expiry handed to the database: ttl when ttl > 0, the
\* default gc_ttl when ttl <= 0; never no expiry.
C5_WriteHandsExpiry ==
    (last.op = "write" /\ last.outcome = "return")
        => /\ _key(last.id) \in DOMAIN db
           /\ db[_key(last.id)].meta = {<<"ttl", RecordTtl(last.ttl)>>}

\* C10: read, write or remove whose database call fails with an error other
\* than record-not-found makes no second database call, and that same error
\* reaches the caller: no payload, no return value, no other error.
C10_OtherErrorsPropagate ==
    (last.op \in {"read", "write", "remove"} /\ last.fault \in OpFaults)
        => /\ last.outcome = "raise"
           /\ last.exc = last.fault
           /\ Len(last.calls) = 1
           /\ last.result = NoResult
           /\ last.ret = NoReturn

C10_Witness ==
    /\ last.op = "read"
    /\ last.fault = "TimeoutError"
    /\ _key(last.id) \in DOMAIN db
    /\ last.outcome = "raise"
    /\ last.exc = "TimeoutError"

\* C11: every write(id, data, lifetime, ttl) that completes returns exactly
\* the session id it was given, whatever data, lifetime and ttl are; a write
\* whose database call succeeds does complete.
C11_WriteReturnsItsId ==
    /\ (last.op = "write" /\ last.outcome = "return")
          => /\ last.ret = <<last.id>>
             /\ last.exc = "none"
    /\ Answered("write") => last.outcome = "return"

\* A completed write of the second id with no ttl of its own, over a
\* record that id already had.
C11_Witness ==
    /\ last.op = "write"
    /\ last.outcome = "return"
    /\ last.id = MaxIds
    /\ last.ttl <= 0
    /\ last.ret = <<MaxIds>>
    /\ Cardinality(DOMAIN db) = MaxIds

\* The payload read finds for each session id in a database: the "data"
\* bin of the record under _key(id), the empty payload without one.
AsMap(d) ==
    [id \in SessionIds |->
        IF _key(id) \in DOMAIN d
        THEN BinsGet(d[_key(id)].bins, "data", EmptyBytes)
        ELSE EmptyBytes]

\* C12: the store behaves like a map from session id to payload with the
\* empty payload as default.  The database holds at most one record per id,
\* under _key(id); a completed write(id, data) is the map update id -> data,
\* a completed remove(id) the update id -> empty, an answered read(id)
\* returns the map's value at id and updates nothing, and an operation that
\* raises updates nothing.  So read(id) returns the payload of the most
\* recent write(id) not followed by a remove(id), and the empty payload
\* otherwise.
C12_BehavesLikeAMap ==
    [][LET id == last'.id IN
        /\ DOMAIN db' \subseteq Keys
        /\ (last'.op = "write" /\ last'.outcome = "return")
              => AsMap(db') = [AsMap(db) EXCEPT ![id] = pending'[id]]
        /\ (last'.op = "remove" /\ last'.outcome = "return")
              => AsMap(db') = [AsMap(db) EXCEPT ![id] = EmptyBytes]
        /\ (last'.op = "read" /\ last'.fault = "none")
              => /\ last'.outcome = "return"
                 /\ last'.result = AsMap(db)[id]
                 /\ AsMap(db') = AsMap(db)
        /\ last'.outcome = "raise" => AsMap(db') = AsMap(db)]_vars

\* An answered read returning the payload of the last completed write of
\* its id, with the record of another id removed in the meantime.
C12_Witness ==
    /\ Answered("read")
    /\ last.id \in DOMAIN pending
    /\ last.result = pending[last.id]
    /\ last.result # EmptyBytes
    /\ \E id \in DOMAIN removed : id # last.id /\ removed[id] = "existing"

\* C13: while one request's store operation waits for its database round
\* trip, that wait holds up only its own task: every other request task
\* that is ready to run can take its next step.
C13_WaitSuspendsOnlyOwnTask ==
    \A t \in Tasks, u \in Tasks :
        (t # u /\ tpc[t] = "calling" /\ tpc[u] = "ready") => ENABLED Begin(u)

\* The successful connection attempts of the constructor.
Created == SelectSeq(trace, LAMBDA e : e.ev = "connect" /\ e.exc = "none")

\* C14: the process has one connection handle.  The constructor created it
\* with one successful connect before any operation ran; every read, write
\* and remove makes its call on that handle, while it is open; no step
\* replaces it or connects again; and shutdown closes it once, after which
\* nothing is served and nothing is closed again.
C14_OneHandleOpenedOnceClosedOnce ==
    /\ [](/\ Len(Created) = 1
          /\ client = "client"
          /\ last.op # "none" => last.handle = client
          /\ closes \in {0, 1}
          /\ pc = "closed" <=> closes = 1
          /\ pc = "connected" <=> closes = 0)
    /\ [][/\ client' = client
          /\ Created' = Created
          /\ (db' # db \/ last' # last) => (closes = 0 /\ closes' = 0)
          /\ closes' # closes => (closes = 0 /\ closes' = 1 /\ db' = db /\ last' = last)]_vars

\* The handle closed at shutdown after operations that stored records.
C14_Witness ==
    /\ pc = "closed"
    /\ closes = 1
    /\ last.op = "read"
    /\ last.handle = "client"
    /\ Cardinality(DOMAIN db) = MaxIds

\* C17: write(id) and remove(id) leave the record of every other session
\* id as it was, present or absent, bins and meta; read changes no record
\* at all; and an operation that raises leaves every record as it was.
C17_OtherRecordsUntouched ==
    [][LET id == last'.id IN
        /\ last'.op \in {"write", "remove"}
              => \A k \in (DOMAIN db \cup DOMAIN db') \ {_key(id)} :
                     /\ k \in DOMAIN db
                     /\ k \in DOMAIN db'
                     /\ db'[k] = db[k]
        /\ last'.op = "read" => db' = db
        /\ last'.outcome = "raise" => db' = db]_vars

\* A completed remove that deleted its id's record, with the payload another
\* id was last written with still in the database.
C17_Witness ==
    /\ last.op = "remove"
    /\ last.outcome = "return"
    /\ last.id \in DOMAIN removed
    /\ removed[last.id] = "existing"
    /\ _key(last.id) \notin DOMAIN db
    /\ \E id \in DOMAIN pending :
          /\ id # last.id
          /\ _key(id) \in DOMAIN db
          /\ db[_key(id)].bins.data = pending[id]
          /\ pending[id] # EmptyBytes

\* A POST /login whose password is the USERS_DB entry of its username.
GoodLogin(r) ==
    /\ r.route = "login"
    /\ r.username \in DOMAIN USERS_DB
    /\ r.password = USERS_DB[r.username]

\* The requests served so far that change who is logged in: good logins
\* and logouts.
Changers == SelectSeq(history, LAMBDA r : GoodLogin(r) \/ r.route = "logout")

\* The user the claim says is logged in: the one of the most recent changer
\* when that is a good login, nobody otherwise.
Expected ==
    IF Changers # << >> /\ Changers[Len(Changers)].route = "login"
    THEN <<Changers[Len(Changers)].username>>
    ELSE << >>

\* C18: after any sequence of home, login-page, login and logout requests
\* on one session, the session holds a username exactly when the most
\* recent good login or logout was a good login, and then that login's
\* username: a login with an unknown username or another password sets and
\* clears nothing.  GET / serves the home page to that user exactly then and
\* redirects to /login otherwise, so after a logout until the next good
\* login; GET /login redirects to / exactly then.
C18_LoggedInIffLastChangerIsGoodLogin ==
    /\ DictGet(session, "username") = Expected
    /\ DOMAIN session \subseteq {"username"}
    /\ (history # << >> /\ history[Len(history)].route = "home")
          => resp = IF Expected # << >>
                    THEN page("Home", Expected, "")
                    ELSE RedirectResponse("/login")
    /\ (history # << >> /\ history[Len(history)].route = "login_page")
          => (resp = RedirectResponse("/") <=> Expected # << >>)
    /\ (history # << >> /\ history[Len(history)].route = "login")
          => resp = IF GoodLogin(history[Len(history)])
                    THEN RedirectResponse("/")
                    ELSE RedirectResponse("/login?error=Invalid+credentials")

\* admin logs in, a login as alice with admin's password is turned away,
\* and the home page is still served to admin.
C18_Witness ==
    /\ Len(history) = 3
    /\ GoodLogin(history[1])
    /\ history[1].username = "admin"
    /\ history[2] = Req("login", "alice", "secret", "")
    /\ history[3].route = "home"
    /\ resp = page("Home", <<"admin">>, "")

====
